---- MODULE Spec2Model ----
(***************************************************************************)
(* A model of causal_testing/specification/causal_dag.py: the CausalDAG    *)
(* class (a directed graph kept in self.graph), its graph transforms, the  *)
(* constructive back-door criterion, and Takata's minimal separator        *)
(* enumeration (list_all_min_sep / close_separator).                       *)
(*                                                                         *)
(* A directed graph is a pair (nodes, edges) with edges a set of ordered   *)
(* pairs <<u, v>>; an undirected graph is a record [nodes, edges] whose    *)
(* edges are two-element sets {u, v}.                                      *)
(***************************************************************************)
EXTENDS Integers, FiniteSets, Sequences, TLC

VARIABLES
    nodes,            \* self.graph.nodes of the CausalDAG
    edges,            \* self.graph.edges of the CausalDAG
    accepted,         \* history: edges present at construction or inserted by an add_edge that returned
    calls,            \* number of add_edge calls made so far
    op,               \* the operation called last
    status,           \* how it ended: "returned", the exception raised, "running"
    u_of_edge,        \* add_edge: argument u_of_edge
    v_of_edge,        \* add_edge: argument v_of_edge
    treatments,       \* argument treatments of the last query
    outcomes,         \* argument outcomes of the last query
    covariates,       \* argument covariates / adjustment_set of the last query
    ret_bool,         \* boolean return value of the last call
    graph,            \* list_all_min_sep: the undirected graph argument
    treatment_node,   \* list_all_min_sep: argument treatment_node
    outcome_node,     \* list_all_min_sep: argument outcome_node
    stack,            \* list_all_min_sep: pending recursive calls, innermost first
    yields,           \* list_all_min_sep: the sets yielded so far, in order
    ret_graph,        \* the graph a transform returned, as [nodes, edges]
    ret_ref,          \* the object returned: "new" (a fresh object), "self" (the source graph), "none"
    ret_set,          \* the node set proper_causal_pathway returned
    search_heuristic, \* list_conditional_independence_relationships: argument search_heuristic
    conditional_independence_relationships,  \* the list it builds, in order
    edge_metadata,    \* specification.causal_dag.graph.adj[u][v]: the attributes of each edge
    surrogate_models, \* the list generate_surrogates returned last
    pc,               \* execute: the statement reached
    max_executions,   \* execute: argument max_executions
    custom_data_aggregator, \* execute: whether a custom_data_aggregator is given
    loop_i,           \* execute: the loop variable i (-1 while unbound)
    test_result,      \* execute: the SimulationResult of the last run (its fault flag)
    data,             \* data_collector.data, as its number of rows
    simulator_calls,  \* history: the calls made on self.simulator, in order
    results,          \* history: the fault flag of every simulation result, in order
    ret_result,       \* execute: first component returned
    ret_iterations,   \* execute: second component returned
    estimate_params,  \* CausalTestCase.__init__: argument estimate_params
    self_estimate_type,   \* CausalTestCase: attribute estimate_type
    self_estimate_params, \* CausalTestCase: attribute estimate_params
    estimator_df,     \* execute_test: estimator.df
    estimator_methods,\* execute_test: the estimate types the estimator has an estimate_ method for
    collect_data_calls,   \* history: number of data_collector.collect_data() calls
    estimate_call     \* history: the call made on the estimator

vars == <<nodes, edges, accepted, calls, op, status, u_of_edge, v_of_edge,
          treatments, outcomes, covariates, ret_bool,
          graph, treatment_node, outcome_node, stack, yields,
          ret_graph, ret_ref, ret_set,
          search_heuristic, conditional_independence_relationships,
          edge_metadata, surrogate_models, pc, max_executions,
          custom_data_aggregator, loop_i, test_result, data, simulator_calls,
          results, ret_result, ret_iterations,
          estimate_params, self_estimate_type, self_estimate_params,
          estimator_df, estimator_methods, collect_data_calls, estimate_call>>

dagVars == <<nodes, edges, accepted, calls, u_of_edge, v_of_edge>>
queryVars == <<treatments, outcomes, covariates, ret_bool>>
sepVars == <<graph, treatment_node, outcome_node, stack, yields>>
retVars == <<ret_graph, ret_ref, ret_set>>
independenceVars == <<search_heuristic, conditional_independence_relationships>>
\* the state of the objects outside causal_dag.py's graph algorithms
specificationVars == <<edge_metadata>>
executeVars == <<pc, max_executions, custom_data_aggregator, loop_i, test_result, data,
                 simulator_calls, results, ret_result, ret_iterations>>
surrogateVars == <<specificationVars, surrogate_models, executeVars>>
testCaseVars == <<estimate_params, self_estimate_type, self_estimate_params,
                  estimator_df, estimator_methods, collect_data_calls, estimate_call>>
otherVars == <<independenceVars, surrogateVars, testCaseVars>>

(***************************************************************************)
(* Bounds.                                                                 *)
(***************************************************************************)
\* number of variable names a causal DAG is drawn from
NumNodes == 4
\* number of add_edge calls made on one CausalDAG
MaxCalls == 2
\* number of inner nodes (besides the two anchors) of an undirected graph
NumInner == 4

NodeNames == <<"A", "B", "C", "D", "E", "F">>
Nodes == {NodeNames[i] : i \in 1..NumNodes}
Inner == {NodeNames[i] : i \in 1..NumInner}

NoNode == "none"
EmptyGraph == [nodes |-> {}, edges |-> {}]

(***************************************************************************)
(* Directed graphs (networkx.DiGraph).                                     *)
(***************************************************************************)
successors(E, S) == {e[2] : e \in {d \in E : d[1] \in S}}
predecessors(E, S) == {e[1] : e \in {d \in E : d[2] \in S}}

RECURSIVE ReachFrom(_, _)
ReachFrom(E, S) ==
    LET S2 == S \cup successors(E, S)
    IN  IF S2 = S THEN S ELSE ReachFrom(E, S2)

RECURSIVE ReachInto(_, _)
ReachInto(E, S) ==
    LET S2 == S \cup predecessors(E, S)
    IN  IF S2 = S THEN S ELSE ReachInto(E, S2)

\* nx.descendants(G, n): the nodes reachable from n, n excluded
descendants(E, n) == ReachFrom(E, successors(E, {n})) \ {n}

\* nx.ancestors(G, n): the nodes n is reachable from, n excluded
ancestors(E, n) == ReachInto(E, predecessors(E, {n})) \ {n}

\* list(nx.simple_cycles(G)) is non-empty: some node reaches itself over
\* one edge or more (a self-loop is a simple cycle)
HasSimpleCycle(E) == \E e \in E : e[1] \in ReachFrom(E, {e[2]})

\* CausalDAG.is_acyclic
is_acyclic(E) == ~HasSimpleCycle(E)

\* the directed graphs CausalDAG.__init__ accepts: read_dot of a file whose
\* graph passes is_acyclic
AllEdges == {e \in Nodes \X Nodes : e[1] # e[2]}
InitDAGs == {g \in [nodes : SUBSET Nodes, edges : SUBSET AllEdges] :
                /\ g.edges \subseteq g.nodes \X g.nodes
                /\ is_acyclic(g.edges)}

(***************************************************************************)
(* Undirected graphs (networkx.Graph).                                     *)
(***************************************************************************)
\* nx.neighbors(G, n)
neighbors(G, n) == {m \in G.nodes : {n, m} \in G.edges}

\* set.union(*[set(nx.neighbors(G, n)) for n in S]), S non-empty
neighbours_of_set(G, S) == UNION {neighbors(G, n) : n \in S}

\* faulty variant of copy: no new object, the result aliases the source
copy_as_view(ref) == ref

\* self.copy() / self.graph.copy() / graph.copy(): a new object with the
\* nodes and edges of the source
copy(ref) == "new"

\* what the object "graph" holds once the object ref, a copy() of it that
\* held G, has been changed to hold changed
graph_after(ref, G, changed) == IF ref = "graph" THEN changed ELSE G

\* G.copy() followed by remove_nodes_from(S)
remove_nodes_from(G, S) ==
    [nodes |-> G.nodes \ S, edges |-> {e \in G.edges : e \cap S = {}}]

RECURSIVE Grow(_, _)
Grow(G, C) ==
    LET C2 == C \cup neighbours_of_set(G, C)
    IN  IF C2 = C THEN C ELSE Grow(G, C2)

\* the member of nx.connected_components(G) that contains n; the empty set
\* when n is no node of G (no component contains it)
component_of(G, n) == IF n \in G.nodes THEN Grow(G, {n}) ELSE {}

(***************************************************************************)
(* close_separator and list_all_min_sep (Takata 2013).                     *)
(***************************************************************************)
\* faulty variant of close_separator: the neighbours of treatment_node_set
\* are returned, not the neighbours of the component of outcome_node
close_separator_neighbours_only(G, t, o, Xs) ==
    LET treatment_neighbours == neighbours_of_set(G, Xs)
        components_graph == remove_nodes_from(G, treatment_neighbours)
        after == graph_after(copy("graph"), G, components_graph)
        component == component_of(components_graph, o)
    IN  IF component # {}
        THEN [raised |-> FALSE, set |-> treatment_neighbours \ Xs, graph |-> after]
        ELSE [raised |-> TRUE, set |-> {}, graph |-> after]

\* faulty variant of close_separator: the nodes of the component are not
\* taken out of the neighbours of the component
close_separator_component_kept(G, t, o, Xs) ==
    LET treatment_neighbours == neighbours_of_set(G, Xs)
        components_graph == remove_nodes_from(G, treatment_neighbours)
        after == graph_after(copy("graph"), G, components_graph)
        component == component_of(components_graph, o)
    IN  IF component # {}
        THEN [raised |-> FALSE, graph |-> after,
              set |-> neighbours_of_set(after, component)]
        ELSE [raised |-> TRUE, set |-> {}, graph |-> after]

\* faulty variant of close_separator: outcome_node is looked for in the
\* graph, not in a component of the graph without the neighbours
close_separator_never_raises(G, t, o, Xs) ==
    LET treatment_neighbours == neighbours_of_set(G, Xs)
        components_graph == remove_nodes_from(G, treatment_neighbours)
        after == graph_after(copy("graph"), G, components_graph)
        component == component_of(components_graph, o)
    IN  IF o \in G.nodes
        THEN [raised |-> FALSE, graph |-> after,
              set |-> neighbours_of_set(after, component) \ component]
        ELSE [raised |-> TRUE, set |-> {}, graph |-> after]

\* close_separator(graph, treatment_node, outcome_node, treatment_node_set):
\* the separator, or the ValueError raised when no component of the graph
\* without the neighbours of treatment_node_set contains outcome_node
\* (raised), and what the graph given holds after the call
close_separator(G, t, o, Xs) ==
    LET treatment_neighbours == neighbours_of_set(G, Xs)
        components_graph == remove_nodes_from(G, treatment_neighbours)
        after == graph_after(copy("graph"), G, components_graph)
        component == component_of(components_graph, o)
    IN  IF component # {}
        THEN [raised |-> FALSE, graph |-> after,
              set |-> neighbours_of_set(after, component) \ component]
        ELSE [raised |-> TRUE, set |-> {}, graph |-> after]

\* the generator is exhausted once no call is pending
Finished(stk) == IF stk = <<>> THEN "returned" ELSE "running"

\* steps 2 and 3: the connected component of the graph without the close
\* separator that contains treatment_node (set() when none does)
treatment_connected_component(G, t, S) ==
    component_of(remove_nodes_from(G, S), t)

\* faulty variant of step 4: the intersection is never looked at
disjoint_with_outcome_set_unchecked(component, Ys) == TRUE

\* step 4: the component is disjoint with the outcome node set
disjoint_with_outcome_set(component, Ys) == component \cap Ys = {}

\* step 6: the neighbours of the new treatment node set, its own nodes excluded
treatment_set_neighbours(G, Xs) == neighbours_of_set(G, Xs) \ Xs

\* faulty variant of steps 7.2 and 7.3: the right branch is missing
recursive_calls_left_only(Xs, Ys, node) ==
    <<[Xs |-> Xs \cup {node}, Ys |-> Ys]>>

\* faulty variant of step 7.2: the left branch goes on from the sampled
\* node alone, not from the treatment node set with the node added
recursive_calls_from_node_alone(Xs, Ys, node) ==
    <<[Xs |-> {node}, Ys |-> Ys], [Xs |-> Xs, Ys |-> Ys \cup {node}]>>

\* steps 7.2 and 7.3: the two recursive calls, the left branch first
recursive_calls(Xs, Ys, node) ==
    <<[Xs |-> Xs \cup {node}, Ys |-> Ys], [Xs |-> Xs, Ys |-> Ys \cup {node}]>>

\* One call of list_all_min_sep: the call at the head of the stack runs up
\* to its recursive calls or its yield.
list_all_min_sep ==
    /\ status = "running"
    /\ stack # <<>>
    /\ LET frame == Head(stack)
           rest == Tail(stack)
           cs == close_separator(graph, treatment_node, outcome_node, frame.Xs)
           treatment_node_set ==
               treatment_connected_component(cs.graph, treatment_node, cs.set)
           treatment_node_set_neighbours ==
               treatment_set_neighbours(cs.graph, treatment_node_set)
           candidates == treatment_node_set_neighbours \ frame.Ys
       IN  IF cs.raised
           THEN \* ValueError propagates out of every pending generator
                /\ status' = "ValueError"
                /\ stack' = <<>>
                /\ UNCHANGED yields
           ELSE IF ~disjoint_with_outcome_set(treatment_node_set, frame.Ys)
           THEN \* step 4 fails: the call ends without a yield
                /\ stack' = rest
                /\ status' = Finished(rest)
                /\ UNCHANGED yields
           ELSE IF treatment_node_set = {}
           THEN \* set.union(*[]) of step 6
                /\ status' = "TypeError"
                /\ stack' = <<>>
                /\ UNCHANGED yields
           ELSE IF candidates # {}
           THEN \* step 7.1: sample a node
                \E node \in candidates :
                    /\ stack' = recursive_calls(treatment_node_set, frame.Ys, node) \o rest
                    /\ status' = "running"
                    /\ UNCHANGED yields
           ELSE \* step 8
                /\ yields' = Append(yields, treatment_node_set_neighbours)
                /\ stack' = rest
                /\ status' = Finished(rest)
    /\ graph' = close_separator(graph, treatment_node, outcome_node, Head(stack).Xs).graph
    /\ UNCHANGED <<dagVars, op, queryVars, treatment_node, outcome_node, retVars, otherVars>>

\* list(list_all_min_sep(...)) when sample() returns the same node for the
\* same candidates every time: how the call ends and the sets it yields.
\* The recursive calls of a step run in order, each one to its end
\* (yield from), until one raises.
RECURSIVE list_all_min_sep_fixed_sample(_, _, _, _, _)
RECURSIVE yield_from_each(_, _, _, _)
yield_from_each(G, t, o, todo) ==
    IF todo = <<>> THEN [status |-> "returned", yields |-> {}]
    ELSE LET first == list_all_min_sep_fixed_sample(G, t, o, Head(todo).Xs, Head(todo).Ys)
         IN  IF first.status # "returned" THEN first
             ELSE LET others == yield_from_each(G, t, o, Tail(todo))
                  IN  [status |-> others.status,
                       yields |-> first.yields \cup others.yields]

list_all_min_sep_fixed_sample(G, t, o, Xs, Ys) ==
    LET cs == close_separator(G, t, o, Xs)
        treatment_node_set == treatment_connected_component(G, t, cs.set)
        treatment_node_set_neighbours == treatment_set_neighbours(G, treatment_node_set)
        candidates == treatment_node_set_neighbours \ Ys
    IN  IF cs.raised THEN [status |-> "ValueError", yields |-> {}]
        ELSE IF ~disjoint_with_outcome_set(treatment_node_set, Ys)
        THEN [status |-> "returned", yields |-> {}]
        ELSE IF treatment_node_set = {} THEN [status |-> "TypeError", yields |-> {}]
        ELSE IF candidates # {}
        THEN LET node == CHOOSE n \in candidates : TRUE
             IN  yield_from_each(G, t, o, recursive_calls(treatment_node_set, Ys, node))
        ELSE [status |-> "returned", yields |-> {treatment_node_set_neighbours}]

(***************************************************************************)
(* CausalDAG.add_edge                                                      *)
(***************************************************************************)
\* self.graph.add_edge(u, v): networkx adds the end points as nodes, then the edge
nx_add_edge(N, E, u, v) == [nodes |-> N \cup {u, v}, edges |-> E \cup {<<u, v>>}]

add_edge(u, v) ==
    /\ calls < MaxCalls
    /\ LET g == nx_add_edge(nodes, edges, u, v)
       IN  /\ nodes' = g.nodes
           /\ edges' = g.edges
           /\ status' = IF is_acyclic(g.edges) THEN "returned" ELSE "HasACycle"
           /\ accepted' = IF is_acyclic(g.edges) THEN accepted \cup {<<u, v>>} ELSE accepted
    /\ calls' = calls + 1
    /\ op' = "add_edge"
    /\ u_of_edge' = u
    /\ v_of_edge' = v
    /\ UNCHANGED <<queryVars, sepVars, retVars, otherVars>>

(***************************************************************************)
(* Graph transforms of CausalDAG. A derived graph is a record [nodes,      *)
(* edges]: self.copy() with edges or nodes removed.                        *)
(***************************************************************************)
\* self.graph.out_edges(treatments)
out_edges(E, X) == {e \in E : e[1] \in X}

\* CausalDAG.get_backdoor_graph: every edge leaving a treatment is deleted
get_backdoor_graph(E, X) == E \ out_edges(E, X)

\* faulty variant of proper_causal_pathway: the ancestors of the outcomes are
\* taken in the graph itself, not in the back-door graph
proper_causal_pathway_ancestors_in_dag(E, X, Y) ==
    LET treatments_descendants == UNION {descendants(E, x) \cup {x} : x \in X}
        treatments_descendants_without_treatments == treatments_descendants \ X
        outcome_ancestors == UNION {ancestors(E, y) \cup {y} : y \in Y}
    IN  treatments_descendants_without_treatments \cap outcome_ancestors

\* CausalDAG.proper_causal_pathway
proper_causal_pathway(E, X, Y) ==
    LET treatments_descendants == UNION {descendants(E, x) \cup {x} : x \in X}
        treatments_descendants_without_treatments == treatments_descendants \ X
        backdoor_graph == get_backdoor_graph(E, X)
        outcome_ancestors == UNION {ancestors(backdoor_graph, y) \cup {y} : y \in Y}
    IN  treatments_descendants_without_treatments \cap outcome_ancestors

\* faulty variant of get_proper_backdoor_graph: every edge leaving a
\* treatment is removed, on a proper causal path or not
get_proper_backdoor_graph_all_out_edges(N, E, X, Y) ==
    [nodes |-> N, edges |-> E \ out_edges(E, X)]

\* CausalDAG.get_proper_backdoor_graph, treatments and outcomes being nodes
get_proper_backdoor_graph(N, E, X, Y) ==
    LET nodes_on_proper_causal_path == proper_causal_pathway(E, X, Y)
        edges_to_remove == {e \in out_edges(E, X) : e[2] \in nodes_on_proper_causal_path}
    IN  [nodes |-> N, edges |-> E \ edges_to_remove]

\* faulty variant of get_ancestor_graph: only the ancestors of the
\* treatments are kept
get_ancestor_graph_of_treatments(N, E, X, Y) ==
    LET treatment_ancestors == UNION {ancestors(E, x) \cup {x} : x \in X}
        variables_to_remove == N \ treatment_ancestors
    IN  [nodes |-> N \ variables_to_remove,
         edges |-> {e \in E : e[1] \notin variables_to_remove /\ e[2] \notin variables_to_remove}]

\* CausalDAG.get_ancestor_graph
get_ancestor_graph(N, E, X, Y) ==
    LET treatment_ancestors == UNION {ancestors(E, x) \cup {x} : x \in X}
        outcome_ancestors == UNION {ancestors(E, y) \cup {y} : y \in Y}
        variables_to_keep == treatment_ancestors \cup outcome_ancestors
        variables_to_remove == N \ variables_to_keep
    IN  [nodes |-> N \ variables_to_remove,
         edges |-> {e \in E : e[1] \notin variables_to_remove /\ e[2] \notin variables_to_remove}]

\* nx.moral_graph(G): the skeleton of G, and an edge between every two
\* predecessors of a node
moral_graph(N, E) ==
    [nodes |-> N,
     edges |-> {{e[1], e[2]} : e \in E}
               \cup {{f[1][1], f[2][1]} :
                        f \in {h \in E \X E : h[1][2] = h[2][2] /\ h[1][1] # h[2][1]}}]

\* Graph.add_edges_from: the end points become nodes
add_edges_from(G, new_edges) ==
    [nodes |-> G.nodes \cup UNION new_edges, edges |-> G.edges \cup new_edges]

\* list(combinations(S, 2)) as undirected edges
combinations2(S) == {p \in SUBSET S : Cardinality(p) = 2}

(***************************************************************************)
(* nx.d_separated(G, x, y, z): leaves outside x, y and z are pruned until  *)
(* none is left, the edges leaving z are removed, and x and y are          *)
(* d-separated iff no node of x is weakly connected to a node of y.        *)
(***************************************************************************)
d_separated(N, E, X, Y, Z) ==
    LET kept == ReachInto(E, (X \cup Y \cup Z) \cap N)
        pruned == {e \in E : e[1] \in kept /\ e[2] \in kept /\ e[1] \notin Z}
        G_copy == [nodes |-> kept, edges |-> {{e[1], e[2]} : e \in pruned}]
    IN  ~\E x \in X : Grow(G_copy, {x}) \cap Y # {}

(***************************************************************************)
(* CausalDAG.constructive_backdoor_criterion and adjustment_set_is_minimal.*)
(* A result is a record: raised names the exception ("none" when the call  *)
(* returns) and value is the boolean returned.                             *)
(***************************************************************************)
Returns(b) == [raised |-> "none", value |-> b]
Raises(exc) == [raised |-> exc, value |-> FALSE]

\* Condition (1): set.union(*[...]) over the variables on proper causal
\* paths; with no such variable set.union is called without an argument
\* and raises TypeError
descendents_of_proper_casual_paths(E, X, Y) ==
    LET proper_causal_path_vars == proper_causal_pathway(E, X, Y)
    IN  IF proper_causal_path_vars = {}
        THEN [raised |-> "TypeError", set |-> {}]
        ELSE [raised |-> "none",
              set |-> UNION {descendants(E, v) \cup {v} : v \in proper_causal_path_vars}]

constructive_backdoor_criterion(N, E, proper_backdoor_graph, X, Y, Z) ==
    LET dpcp == descendents_of_proper_casual_paths(E, X, Y)
    IN  IF dpcp.raised # "none" THEN Raises(dpcp.raised)
        ELSE IF ~(Z \subseteq (N \ dpcp.set)) THEN Returns(FALSE)
        ELSE IF ~d_separated(proper_backdoor_graph.nodes, proper_backdoor_graph.edges, X, Y, Z)
             THEN Returns(FALSE)
        ELSE Returns(TRUE)

adjustment_set_is_minimal(N, E, X, Y, Z) ==
    LET proper_backdoor_graph == get_proper_backdoor_graph(N, E, X, Y)
        valid == constructive_backdoor_criterion(N, E, proper_backdoor_graph, X, Y, Z)
    IN  IF valid.raised # "none" THEN Raises(valid.raised)
        ELSE IF ~valid.value THEN Raises("ValueError")
        ELSE IF \E variable \in Z :
                   LET smaller == constructive_backdoor_criterion(
                                      N, E, proper_backdoor_graph, X, Y, Z \ {variable})
                   IN  smaller.raised = "none" /\ smaller.value
             THEN Returns(FALSE)
        ELSE Returns(TRUE)

(***************************************************************************)
(* CausalDAG.enumerate_minimal_adjustment_sets                             *)
(***************************************************************************)
\* steps 1 to 3: the moralised ancestor graph of the proper back-door
\* graph, with the two anchors and the cliques of their neighbourhoods
moralised_proper_backdoor_graph(N, E, X, Y) ==
    LET proper_backdoor_graph == get_proper_backdoor_graph(N, E, X, Y)
        ancestor_proper_backdoor_graph ==
            get_ancestor_graph(proper_backdoor_graph.nodes, proper_backdoor_graph.edges, X, Y)
        moralised == moral_graph(ancestor_proper_backdoor_graph.nodes,
                                 ancestor_proper_backdoor_graph.edges)
        edges_to_add == {{"TREATMENT", x} : x \in X} \cup {{"OUTCOME", y} : y \in Y}
        anchored == add_edges_from(moralised, edges_to_add)
        treatment_neighbours == neighbours_of_set(anchored, X) \ X
        outcome_neighbours == neighbours_of_set(anchored, Y) \ Y
        neighbour_edges_to_add ==
            combinations2(treatment_neighbours) \cup combinations2(outcome_neighbours)
    IN  add_edges_from(anchored, neighbour_edges_to_add)

\* step 4: the call of list_all_min_sep whose yields are the list returned
enumerate_minimal_adjustment_sets(X, Y) ==
    /\ op = "init"
    /\ op' = "enumerate_minimal_adjustment_sets"
    /\ treatments' = X
    /\ outcomes' = Y
    /\ graph' = moralised_proper_backdoor_graph(nodes, edges, X, Y)
    /\ treatment_node' = "TREATMENT"
    /\ outcome_node' = "OUTCOME"
    /\ stack' = <<[Xs |-> {"TREATMENT"},
                   Ys |-> neighbors(graph', "OUTCOME") \cup {"OUTCOME"}]>>
    /\ yields' = <<>>
    /\ status' = "running"
    /\ UNCHANGED <<dagVars, covariates, ret_bool, retVars, otherVars>>

\* a call of constructive_backdoor_criterion with the proper back-door
\* graph of the query
call_constructive_backdoor_criterion(X, Y, Z) ==
    /\ op = "init"
    /\ op' = "constructive_backdoor_criterion"
    /\ treatments' = X
    /\ outcomes' = Y
    /\ covariates' = Z
    /\ LET r == constructive_backdoor_criterion(
                    nodes, edges, get_proper_backdoor_graph(nodes, edges, X, Y), X, Y, Z)
       IN  /\ status' = IF r.raised = "none" THEN "returned" ELSE r.raised
           /\ ret_bool' = r.value
    /\ UNCHANGED <<dagVars, sepVars, retVars, otherVars>>

call_adjustment_set_is_minimal(X, Y, Z) ==
    /\ op = "init"
    /\ op' = "adjustment_set_is_minimal"
    /\ treatments' = X
    /\ outcomes' = Y
    /\ covariates' = Z
    /\ LET r == adjustment_set_is_minimal(nodes, edges, X, Y, Z)
       IN  /\ status' = IF r.raised = "none" THEN "returned" ELSE r.raised
           /\ ret_bool' = r.value
    /\ UNCHANGED <<dagVars, sepVars, retVars, otherVars>>

\* the queries: non-empty disjoint treatments and outcomes among the nodes
Queries(N) == {q \in [X : SUBSET N, Y : SUBSET N] :
                 q.X # {} /\ q.Y # {} /\ q.X \cap q.Y = {}}

\* the covariate sets of a query: nodes that are no treatment and no outcome
CovariateSets(N, q) == SUBSET (N \ (q.X \cup q.Y))

InitQuery ==
    /\ op = "init"
    /\ status = "returned"
    /\ treatments = {}
    /\ outcomes = {}
    /\ covariates = {}
    /\ ret_bool = FALSE

InitSepIdle ==
    /\ graph = EmptyGraph
    /\ treatment_node = NoNode
    /\ outcome_node = NoNode
    /\ stack = <<>>
    /\ yields = <<>>

InitRet ==
    /\ ret_graph = EmptyGraph
    /\ ret_ref = "none"
    /\ ret_set = {}

InitIndependence ==
    /\ search_heuristic = "none"
    /\ conditional_independence_relationships = <<>>

\* the loop variable of execute before the first iteration
Unbound == -1

\* no edge carries an attribute
NoMetadata == [included |-> FALSE, expected |-> "absent"]

InitExecute ==
    /\ surrogate_models = <<>>
    /\ pc = "idle"
    /\ max_executions = 0
    /\ custom_data_aggregator = FALSE
    /\ loop_i = Unbound
    /\ test_result = FALSE
    /\ data = 0
    /\ simulator_calls = <<>>
    /\ results = <<>>
    /\ ret_result = "none"
    /\ ret_iterations = 0

InitSurrogate ==
    /\ edge_metadata = [e \in edges |-> NoMetadata]
    /\ InitExecute

\* a value that is None, a dict with the keywords given, or an attribute
\* that was never assigned
None == [kind |-> "None", keywords |-> {}]
Unset == [kind |-> "unset", keywords |-> {}]
dict(keywords) == [kind |-> "dict", keywords |-> keywords]

\* no call was made on the estimator
NoCall == [method |-> "none", kwargs |-> {}]

InitTestCase ==
    /\ estimate_params = None
    /\ self_estimate_type = "unset"
    /\ self_estimate_params = Unset
    /\ estimator_df = "None"
    /\ estimator_methods = {}
    /\ collect_data_calls = 0
    /\ estimate_call = NoCall

InitOther == InitIndependence /\ InitSurrogate /\ InitTestCase

InitDAG ==
    /\ \E g \in InitDAGs : nodes = g.nodes /\ edges = g.edges
    /\ accepted = edges
    /\ calls = 0
    /\ u_of_edge = NoNode
    /\ v_of_edge = NoNode

InitAddEdge == InitDAG /\ InitQuery /\ InitSepIdle /\ InitRet /\ InitOther

NextAddEdge == \E u \in Nodes, v \in Nodes : add_edge(u, v)

SpecAddEdge == InitAddEdge /\ [][NextAddEdge]_vars

(***************************************************************************)
(* Spec: one query on a CausalDAG read from a dot file.                    *)
(***************************************************************************)
Init == InitDAG /\ InitQuery /\ InitSepIdle /\ InitRet /\ InitOther

Next ==
    \/ \E q \in Queries(nodes) : enumerate_minimal_adjustment_sets(q.X, q.Y)
    \/ list_all_min_sep
    \/ \E q \in Queries(nodes) : \E Z \in CovariateSets(nodes, q) :
           call_constructive_backdoor_criterion(q.X, q.Y, Z)
    \/ \E q \in Queries(nodes) : \E Z \in CovariateSets(nodes, q) :
           call_adjustment_set_is_minimal(q.X, q.Y, Z)

Spec == Init /\ [][Next]_vars

(***************************************************************************)
(* SpecGraph: one graph transform called on a CausalDAG, with treatments   *)
(* and outcomes drawn from all variable names (some may be no node of the  *)
(* graph), and then a client removing nodes from the graph returned.       *)
(*                                                                         *)
(* Objects: "self" is the graph the method is called on (nodes, edges);    *)
(* a transform works on the object copy() gives it and returns that        *)
(* object. ret_ref says which object was returned, ret_graph what it       *)
(* holds. A write to the object "self" is a write to nodes and edges.      *)
(***************************************************************************)
\* the object ref now holds g (remove_edges_from, remove_nodes_from,
\* remove_edge, remove_node on that object)
write_graph(ref, g) ==
    /\ ret_graph' = g
    /\ nodes' = IF ref = "self" THEN g.nodes ELSE nodes
    /\ edges' = IF ref = "self" THEN g.edges ELSE edges

\* faulty variant of unknown_nodes: the names are not looked up
unknown_nodes_not_looked_up(N, vars_list) == {}

\* var not in self.graph.nodes, for some var of the list
unknown_nodes(N, vars_list) == vars_list \ N

\* CausalDAG.get_indirect_graph: the edges from a treatment to an outcome
\* are removed
get_indirect_graph(N, E, X, Y) ==
    LET ee == {e \in X \X Y : e \in E}
    IN  [nodes |-> N, edges |-> E \ ee]

\* no graph is returned
no_graph_returned ==
    /\ ret_ref' = "none"
    /\ ret_graph' = EmptyGraph
    /\ UNCHANGED <<nodes, edges>>

call_get_proper_backdoor_graph(X, Y) ==
    /\ op = "init"
    /\ op' = "get_proper_backdoor_graph"
    /\ treatments' = X
    /\ outcomes' = Y
    /\ IF unknown_nodes(nodes, X \cup Y) # {}
       THEN /\ status' = "IndexError"
            /\ no_graph_returned
       ELSE /\ status' = "returned"
            /\ ret_ref' = copy("self")
            /\ write_graph(ret_ref', get_proper_backdoor_graph(nodes, edges, X, Y))
    /\ UNCHANGED <<accepted, calls, u_of_edge, v_of_edge, covariates, ret_bool, sepVars, ret_set, otherVars>>

\* nx.descendants and nx.ancestors raise NetworkXError for a node that is
\* not in the graph
call_proper_causal_pathway(X, Y) ==
    /\ op = "init"
    /\ op' = "proper_causal_pathway"
    /\ treatments' = X
    /\ outcomes' = Y
    /\ IF unknown_nodes(nodes, X \cup Y) # {}
       THEN /\ status' = "NetworkXError"
            /\ ret_set' = {}
       ELSE /\ status' = "returned"
            /\ ret_set' = proper_causal_pathway(edges, X, Y)
    /\ UNCHANGED <<dagVars, covariates, ret_bool, sepVars, ret_graph, ret_ref, otherVars>>

call_get_ancestor_graph(X, Y) ==
    /\ op = "init"
    /\ op' = "get_ancestor_graph"
    /\ treatments' = X
    /\ outcomes' = Y
    /\ IF unknown_nodes(nodes, X \cup Y) # {}
       THEN /\ status' = "NetworkXError"
            /\ no_graph_returned
       ELSE /\ status' = "returned"
            /\ ret_ref' = copy("self")
            /\ write_graph(ret_ref', get_ancestor_graph(nodes, edges, X, Y))
    /\ UNCHANGED <<accepted, calls, u_of_edge, v_of_edge, covariates, ret_bool, sepVars, ret_set, otherVars>>

\* (s, t) in gback.graph.edges is false for a name that is no node
call_get_indirect_graph(X, Y) ==
    /\ op = "init"
    /\ op' = "get_indirect_graph"
    /\ treatments' = X
    /\ outcomes' = Y
    /\ status' = "returned"
    /\ ret_ref' = copy("self")
    /\ write_graph(ret_ref', get_indirect_graph(nodes, edges, X, Y))
    /\ UNCHANGED <<accepted, calls, u_of_edge, v_of_edge, covariates, ret_bool, sepVars, ret_set, otherVars>>

\* out_edges(treatments) skips a name that is no node
call_get_backdoor_graph(X) ==
    /\ op = "init"
    /\ op' = "get_backdoor_graph"
    /\ treatments' = X
    /\ outcomes' = {}
    /\ status' = "returned"
    /\ ret_ref' = copy("self")
    /\ write_graph(ret_ref', [nodes |-> nodes, edges |-> get_backdoor_graph(edges, X)])
    /\ UNCHANGED <<accepted, calls, u_of_edge, v_of_edge, covariates, ret_bool, sepVars, ret_set, otherVars>>

\* the caller removes a node from the graph it was given: Graph.remove_node
remove_node(n) ==
    /\ ret_ref # "none"
    /\ n \in ret_graph.nodes
    /\ op' = "remove_node"
    /\ status' = "returned"
    /\ write_graph(ret_ref,
                   [nodes |-> ret_graph.nodes \ {n},
                    edges |-> {e \in ret_graph.edges : e[1] # n /\ e[2] # n}])
    /\ UNCHANGED <<accepted, calls, u_of_edge, v_of_edge, queryVars, sepVars, ret_ref, ret_set, otherVars>>

\* treatments and outcomes as a caller may pass them: names, nodes or not
AnyQueries == Queries(Nodes)

NextGraph ==
    \/ \E q \in AnyQueries : call_get_proper_backdoor_graph(q.X, q.Y)
    \/ \E q \in AnyQueries : call_proper_causal_pathway(q.X, q.Y)
    \/ \E q \in AnyQueries : call_get_ancestor_graph(q.X, q.Y)
    \/ \E q \in AnyQueries : call_get_indirect_graph(q.X, q.Y)
    \/ \E X \in SUBSET Nodes : call_get_backdoor_graph(X)
    \/ \E n \in Nodes : remove_node(n)

SpecGraph == Init /\ [][NextGraph]_vars

(***************************************************************************)
(* CausalDAG.direct_effect_adjustment_sets                                 *)
(***************************************************************************)
\* the graph gam: the moralised ancestor graph of the indirect graph with
\* the two anchors
moralised_indirect_graph(N, E, X, Y) ==
    LET indirect_graph == get_indirect_graph(N, E, X, Y)
        ancestor_graph == get_ancestor_graph(indirect_graph.nodes, indirect_graph.edges, X, Y)
        gam == moral_graph(ancestor_graph.nodes, ancestor_graph.edges)
        edges_to_add == {{"TREATMENT", x} : x \in X} \cup {{"OUTCOME", y} : y \in Y}
    IN  add_edges_from(gam, edges_to_add)

\* the call of list_all_min_sep whose yields are the list returned
direct_effect_adjustment_sets(X, Y) ==
    /\ op = "init"
    /\ op' = "direct_effect_adjustment_sets"
    /\ treatments' = X
    /\ outcomes' = Y
    /\ graph' = moralised_indirect_graph(nodes, edges, X, Y)
    /\ treatment_node' = "TREATMENT"
    /\ outcome_node' = "OUTCOME"
    /\ stack' = <<[Xs |-> X, Ys |-> Y]>>
    /\ yields' = <<>>
    /\ status' = "running"
    /\ UNCHANGED <<dagVars, covariates, ret_bool, retVars, otherVars>>

NextDirect ==
    \/ \E q \in Queries(nodes) : direct_effect_adjustment_sets(q.X, q.Y)
    \/ list_all_min_sep

SpecDirect == Init /\ [][NextDirect]_vars

(***************************************************************************)
(* SpecSep: list_all_min_sep called on an undirected graph over the two    *)
(* anchors a and b and the inner nodes, as the test suite calls it: with   *)
(* treatment_node_set {a} and outcome_node_set neighbors(b) + {b}.         *)
(***************************************************************************)
AnchorT == "a"
AnchorO == "b"
SepNodes == Inner \cup {AnchorT, AnchorO}
SepPairs == {p \in SUBSET SepNodes : Cardinality(p) = 2}

InitNoDAG ==
    /\ nodes = {}
    /\ edges = {}
    /\ accepted = {}
    /\ calls = 0
    /\ u_of_edge = NoNode
    /\ v_of_edge = NoNode

InitSep ==
    /\ InitNoDAG
    /\ InitRet
    /\ InitOther
    /\ op = "list_all_min_sep"
    /\ status = "running"
    /\ treatments = {}
    /\ outcomes = {}
    /\ covariates = {}
    /\ ret_bool = FALSE
    /\ \E E \in SUBSET SepPairs : graph = [nodes |-> SepNodes, edges |-> E]
    /\ treatment_node = AnchorT
    /\ outcome_node = AnchorO
    /\ stack = <<[Xs |-> {AnchorT}, Ys |-> neighbors(graph, AnchorO) \cup {AnchorO}]>>
    /\ yields = <<>>

\* the graph of the test suite, a-2, a-3, 2-4, 3-5, 3-4, 4-b, 5-b, its nodes
\* 2, 3, 4, 5 named A, B, C, D
FixtureGraph ==
    [nodes |-> {"a", "b", "A", "B", "C", "D"},
     edges |-> {{"a", "A"}, {"a", "B"}, {"A", "C"}, {"B", "D"}, {"B", "C"},
                {"C", "b"}, {"D", "b"}}]

NextSep == list_all_min_sep

SpecSep == InitSep /\ [][NextSep]_vars

(***************************************************************************)
(* SpecClose: the enumerations that call close_separator, on the graphs of *)
(* SpecSep (adjacent anchors included) and on the graphs that              *)
(* enumerate_minimal_adjustment_sets builds from a CausalDAG.              *)
(***************************************************************************)
InitClose == Init \/ InitSep

NextClose ==
    \/ \E q \in Queries(nodes) : enumerate_minimal_adjustment_sets(q.X, q.Y)
    \/ list_all_min_sep

SpecClose == InitClose /\ [][NextClose]_vars

(***************************************************************************)
(* CausalDAG.list_conditional_independence_relationships. The returned     *)
(* list is a sequence of records [X, Y, Z]; ConditionalIndependence(x, y)  *)
(* keeps Z = [], written {} here, and a conditioning set is never empty.   *)
(* self.graph.nodes is iterated in insertion order, taken to be the order  *)
(* of NodeNames.                                                           *)
(***************************************************************************)
SearchHeuristics == {"minimal", "min_direct", "maximal", "all"}

\* list(self.graph.nodes)
RECURSIVE node_list_from(_, _)
node_list_from(N, i) ==
    IF i > Len(NodeNames) THEN <<>>
    ELSE IF NodeNames[i] \in N THEN <<NodeNames[i]>> \o node_list_from(N, i + 1)
    ELSE node_list_from(N, i + 1)

node_list(N) == node_list_from(N, 1)

\* itertools.combinations(iterable, r): the r-length subsequences, in
\* lexicographic order of position
RECURSIVE combinations(_, _)
combinations(iterable, r) ==
    IF r = 0 THEN << <<>> >>
    ELSE IF Len(iterable) < r THEN <<>>
    ELSE LET rest == combinations(Tail(iterable), r - 1)
         IN  [i \in 1..Len(rest) |-> <<Head(iterable)>> \o rest[i]]
             \o combinations(Tail(iterable), r)

\* range(start, end, step) for step 1 or -1
RECURSIVE range(_, _, _)
range(start, end, step) ==
    IF step = 1
    THEN IF start >= end THEN <<>> ELSE <<start>> \o range(start + 1, end, step)
    ELSE IF start <= end THEN <<>> ELSE <<start>> \o range(start - 1, end, step)

set_of(seq) == {seq[i] : i \in 1..Len(seq)}

ConditionalIndependence(x, y, zs) == [X |-> x, Y |-> y, Z |-> zs]

\* zs_set: with min_direct the predecessors of y are appended to zs
conditioning_set(E, heuristic, y, zs) ==
    IF heuristic = "min_direct"
    THEN set_of(zs) \cup predecessors(E, {y})
    ELSE set_of(zs)

\* the inner for loop: the relationships appended for one size
RECURSIVE relationships_of_size(_, _, _, _, _, _)
relationships_of_size(N, E, heuristic, x, y, todo) ==
    IF todo = <<>> THEN <<>>
    ELSE LET zs_set == conditioning_set(E, heuristic, y, Head(todo))
             found == IF d_separated(N, E, {x}, {y}, zs_set)
                      THEN <<ConditionalIndependence(x, y, zs_set)>>
                      ELSE <<>>
         IN  found \o relationships_of_size(N, E, heuristic, x, y, Tail(todo))

\* faulty variant of search_sizes: every size is searched, whatever was found
RECURSIVE search_sizes_no_break(_, _, _, _, _, _, _)
search_sizes_no_break(N, E, heuristic, x, y, others, sizes) ==
    IF sizes = <<>> THEN <<>>
    ELSE relationships_of_size(N, E, heuristic, x, y, combinations(others, Head(sizes)))
         \o search_sizes_no_break(N, E, heuristic, x, y, others, Tail(sizes))

\* the outer for loop over adjustment_set_size, left by break once
\* current_adjustment_set_size is finite unless the heuristic is "all"
RECURSIVE search_sizes(_, _, _, _, _, _, _)
search_sizes(N, E, heuristic, x, y, others, sizes) ==
    IF sizes = <<>> THEN <<>>
    ELSE LET found == relationships_of_size(N, E, heuristic, x, y,
                                            combinations(others, Head(sizes)))
         IN  IF heuristic # "all" /\ found # <<>> THEN found
             ELSE found \o search_sizes(N, E, heuristic, x, y, others, Tail(sizes))

\* start, end and step, swapped for the maximal heuristic
adjustment_set_sizes(heuristic, number_of_nodes) ==
    LET start == 1
        end == number_of_nodes + 1
    IN  IF heuristic = "maximal" THEN range(end, start, -1) ELSE range(start, end, 1)

\* the body of the loop over node pairs
relationships_of_pair(N, E, heuristic, node_pair) ==
    LET x == node_pair[1]
        y == node_pair[2]
        others == node_list(N \ {x, y})
        unconditional == IF d_separated(N, E, {x}, {y}, {})
                         THEN <<ConditionalIndependence(x, y, {})>>
                         ELSE <<>>
    IN  unconditional
        \o search_sizes(N, E, heuristic, x, y, others,
                        adjustment_set_sizes(heuristic, Len(others)))

RECURSIVE relationships_of_pairs(_, _, _, _)
relationships_of_pairs(N, E, heuristic, pairs) ==
    IF pairs = <<>> THEN <<>>
    ELSE relationships_of_pair(N, E, heuristic, Head(pairs))
         \o relationships_of_pairs(N, E, heuristic, Tail(pairs))

list_conditional_independence_relationships(heuristic) ==
    /\ op = "init"
    /\ op' = "list_conditional_independence_relationships"
    /\ status' = "returned"
    /\ search_heuristic' = heuristic
    /\ IF Cardinality(nodes) < 2
       THEN /\ ret_ref' = "none"
            /\ conditional_independence_relationships' = <<>>
       ELSE /\ ret_ref' = "new"
            /\ conditional_independence_relationships' =
                   relationships_of_pairs(nodes, edges, heuristic,
                                          combinations(node_list(nodes), 2))
    /\ UNCHANGED <<dagVars, queryVars, sepVars, ret_graph, ret_set, surrogateVars,
                   testCaseVars>>

NextIndependence ==
    \E heuristic \in SearchHeuristics :
        list_conditional_independence_relationships(heuristic)

SpecIndependence == Init /\ [][NextIndependence]_vars

(***************************************************************************)
(* causal_surrogate_assisted.py: CausalSurrogateAssistedTestCase. The      *)
(* attributes of an edge are a record: included tells whether the key      *)
(* "included" is present, expected is the value under "expected", "absent" *)
(* when the key is missing. A surrogate model is a record of the treatment,*)
(* the outcome and the expected relationship given to                      *)
(* CubicSplineRegressionEstimator. data_collector.data is a data frame,    *)
(* kept as the number of rows added to the rows collect_data() found.      *)
(***************************************************************************)
\* number of nodes of the DAG of a causal specification
NumSpecificationNodes == 3
\* largest max_executions given to execute
MaxExecutions == 3

Relationships == {"positive", "negative"}
EdgeMetadata == [included : BOOLEAN, expected : Relationships \cup {"absent"}]

\* graph.adj[u][v]; an edge added without attributes has an empty dict
adj(metadata, e) == IF e \in DOMAIN metadata THEN metadata[e] ELSE NoMetadata

\* list(graph.edges): by first node, then by second node
RECURSIVE edge_list_from(_, _, _)
edge_list_from(E, order, k) ==
    IF k > Len(order) * Len(order) THEN <<>>
    ELSE LET e == <<order[((k - 1) \div Len(order)) + 1], order[((k - 1) % Len(order)) + 1]>>
         IN  (IF e \in E THEN <<e>> ELSE <<>>) \o edge_list_from(E, order, k + 1)

edge_list(N, E) == edge_list_from(E, node_list(N), 1)

\* CubicSplineRegressionEstimator(u, 0, 0, minimal_adjustment_set, v, 4, ...)
surrogate_of(e, edge_metadata_of_e) ==
    [treatment |-> e[1], outcome |-> e[2],
     expected_relationship |-> edge_metadata_of_e.expected]

\* the loop of generate_surrogates over the edges still to visit:
\* edge_metadata["expected"] raises KeyError when the key is missing
RECURSIVE generate_surrogates_from(_, _)
generate_surrogates_from(metadata, todo) ==
    IF todo = <<>> THEN [raised |-> "none", list |-> <<>>]
    ELSE LET edge_metadata_of_e == adj(metadata, Head(todo))
             rest == generate_surrogates_from(metadata, Tail(todo))
         IN  IF ~edge_metadata_of_e.included THEN rest
             ELSE IF edge_metadata_of_e.expected = "absent"
                  THEN [raised |-> "KeyError", list |-> <<>>]
             ELSE IF rest.raised # "none" THEN rest
             ELSE [raised |-> "none",
                   list |-> <<surrogate_of(Head(todo), edge_metadata_of_e)>> \o rest.list]

generate_surrogates(N, E, metadata) ==
    generate_surrogates_from(metadata, edge_list(N, E))

\* a call of generate_surrogates on the specification
call_generate_surrogates ==
    /\ op = "init"
    /\ op' = "generate_surrogates"
    /\ LET r == generate_surrogates(nodes, edges, edge_metadata)
       IN  /\ status' = IF r.raised = "none" THEN "returned" ELSE r.raised
           /\ surrogate_models' = r.list
    /\ UNCHANGED <<dagVars, queryVars, sepVars, retVars, independenceVars, testCaseVars,
                   specificationVars, executeVars>>

\* execute up to the loop: data_collector.collect_data()
execute(max, aggregator) ==
    /\ op = "init"
    /\ op' = "execute"
    /\ status' = "running"
    /\ max_executions' = max
    /\ custom_data_aggregator' = aggregator
    /\ pc' = "for"
    /\ data' = 0
    /\ UNCHANGED <<dagVars, queryVars, sepVars, retVars, independenceVars, testCaseVars,
                   specificationVars, surrogate_models, loop_i, test_result,
                   simulator_calls, results, ret_result, ret_iterations>>

\* range(max_executions): the value i takes next, Unbound when exhausted
next_of_range(current, max) ==
    LET next == IF current = Unbound THEN 0 ELSE current + 1
    IN  IF next < max THEN next ELSE Unbound

\* the head of the for loop and the statements up to the simulator calls;
\* after the loop, "No fault found" is returned with i + 1, i being unbound
\* when the loop body never ran
execute_for ==
    /\ op = "execute"
    /\ pc = "for"
    /\ IF next_of_range(loop_i, max_executions) # Unbound
       THEN /\ loop_i' = next_of_range(loop_i, max_executions)
            /\ LET r == generate_surrogates(nodes, edges, edge_metadata)
               IN  IF r.raised = "none"
                   THEN /\ surrogate_models' = r.list
                        /\ pc' = "startup"
                        /\ status' = "running"
                   ELSE /\ surrogate_models' = surrogate_models
                        /\ pc' = "done"
                        /\ status' = r.raised
            /\ UNCHANGED <<ret_result, ret_iterations>>
       ELSE /\ pc' = "done"
            /\ IF loop_i = Unbound
               THEN /\ status' = "UnboundLocalError"
                    /\ UNCHANGED <<ret_result, ret_iterations>>
               ELSE /\ status' = "returned"
                    /\ ret_result' = "No fault found"
                    /\ ret_iterations' = loop_i + 1
            /\ UNCHANGED <<loop_i, surrogate_models>>
    /\ UNCHANGED <<dagVars, op, queryVars, sepVars, retVars, independenceVars, testCaseVars,
                   specificationVars, max_executions, custom_data_aggregator,
                   test_result, data, simulator_calls, results>>

\* faulty variant of simulator_call: shutdown is not called
simulator_call_without_shutdown(made, name) ==
    IF name = "shutdown" THEN made ELSE Append(made, name)

\* a method of self.simulator is called
simulator_call(made, name) == Append(made, name)

simulator_startup ==
    /\ op = "execute"
    /\ pc = "startup"
    /\ simulator_calls' = simulator_call(simulator_calls, "startup")
    /\ pc' = "run_with_config"
    /\ UNCHANGED <<dagVars, op, status, queryVars, sepVars, retVars, independenceVars, testCaseVars,
                   specificationVars, surrogate_models, max_executions,
                   custom_data_aggregator, loop_i, test_result, data, results,
                   ret_result, ret_iterations>>

\* the simulator runs the candidate test case and reports a fault or none
simulator_run_with_config(fault) ==
    /\ op = "execute"
    /\ pc = "run_with_config"
    /\ simulator_calls' = simulator_call(simulator_calls, "run_with_config")
    /\ test_result' = fault
    /\ results' = Append(results, fault)
    /\ pc' = "shutdown"
    /\ UNCHANGED <<dagVars, op, status, queryVars, sepVars, retVars, independenceVars, testCaseVars,
                   specificationVars, surrogate_models, max_executions,
                   custom_data_aggregator, loop_i, data, ret_result, ret_iterations>>

simulator_shutdown ==
    /\ op = "execute"
    /\ pc = "shutdown"
    /\ simulator_calls' = simulator_call(simulator_calls, "shutdown")
    /\ pc' = "aggregate"
    /\ UNCHANGED <<dagVars, op, status, queryVars, sepVars, retVars, independenceVars, testCaseVars,
                   specificationVars, surrogate_models, max_executions,
                   custom_data_aggregator, loop_i, test_result, data, results,
                   ret_result, ret_iterations>>

\* data_collector.data after the result is merged: one row appended, or
\* what the custom aggregator returns (the aggregator of the test suite
\* appends the row twice)
aggregated(rows, aggregator) == IF aggregator THEN rows + 2 ELSE rows + 1

\* the statement reached after the data is merged
end_of_iteration(fault) == IF fault THEN "done" ELSE "for"

\* the rest of the loop body: the data is merged and a fault is returned
execute_aggregate ==
    /\ op = "execute"
    /\ pc = "aggregate"
    /\ data' = aggregated(data, custom_data_aggregator)
    /\ pc' = end_of_iteration(test_result)
    /\ IF end_of_iteration(test_result) = "done"
       THEN /\ status' = "returned"
            /\ ret_result' = "SimulationResult"
            /\ ret_iterations' = loop_i + 1
       ELSE UNCHANGED <<status, ret_result, ret_iterations>>
    /\ UNCHANGED <<dagVars, op, queryVars, sepVars, retVars, independenceVars, testCaseVars,
                   specificationVars, surrogate_models, max_executions,
                   custom_data_aggregator, loop_i, test_result, simulator_calls,
                   results>>

\* a causal specification: a DAG whose edges carry attributes
InitSpecification ==
    /\ \E g \in {h \in InitDAGs :
                    h.nodes \subseteq {NodeNames[k] : k \in 1..NumSpecificationNodes}} :
           nodes = g.nodes /\ edges = g.edges
    /\ accepted = edges
    /\ calls = 0
    /\ u_of_edge = NoNode
    /\ v_of_edge = NoNode
    /\ edge_metadata \in [edges -> EdgeMetadata]

InitSurrogateAssisted ==
    /\ InitSpecification
    /\ InitQuery
    /\ InitSepIdle
    /\ InitRet
    /\ InitIndependence
    /\ InitExecute
    /\ InitTestCase

NextSurrogateAssisted ==
    \/ call_generate_surrogates
    \/ \E max \in 0..MaxExecutions, aggregator \in BOOLEAN : execute(max, aggregator)
    \/ execute_for
    \/ simulator_startup
    \/ \E fault \in BOOLEAN : simulator_run_with_config(fault)
    \/ simulator_shutdown
    \/ execute_aggregate

SpecSurrogateAssisted == InitSurrogateAssisted /\ [][NextSurrogateAssisted]_vars

(***************************************************************************)
(* causal_test_case.py: CausalTestCase.__init__ and execute_test. An       *)
(* estimator is given by its df ("None" or "given") and by the estimate    *)
(* types it has an estimate_<type> method for.                             *)
(***************************************************************************)
EstimateTypes == {"ate", "risk_ratio", "coefficient", "None"}
EstimatorMethods == {"ate", "risk_ratio", "coefficient"}
EstimateParams == {None, dict({}), dict({"adjustment_config"})}

\* self.estimate_params after __init__: assigned only when the argument is
\* None
stored_estimate_params(given) ==
    IF given = None THEN dict({}) ELSE Unset

CausalTestCase__init__(estimate_type, params) ==
    /\ op = "init"
    /\ op' = "__init__"
    /\ status' = "returned"
    /\ estimate_params' = params
    /\ self_estimate_type' = estimate_type
    /\ self_estimate_params' = stored_estimate_params(params)
    /\ UNCHANGED <<dagVars, queryVars, sepVars, retVars, independenceVars, surrogateVars,
                   estimator_df, estimator_methods, collect_data_calls, estimate_call>>

\* _return_causal_test_results: the exception raised ("none" when it
\* returns) and the call made on the estimator
return_causal_test_results(methods, estimate_type, params) ==
    IF estimate_type \notin methods
    THEN [raised |-> "AttributeError", call |-> NoCall]
    ELSE IF params = Unset
    THEN [raised |-> "AttributeError", call |-> NoCall]
    ELSE [raised |-> "none", call |-> [method |-> estimate_type, kwargs |-> params.keywords]]

execute_test(df, methods) ==
    /\ op = "__init__"
    /\ op' = "execute_test"
    /\ estimator_methods' = methods
    /\ IF df = "None"
       THEN /\ estimator_df' = "collected"
            /\ collect_data_calls' = collect_data_calls + 1
       ELSE /\ estimator_df' = df
            /\ UNCHANGED collect_data_calls
    /\ LET r == return_causal_test_results(methods, self_estimate_type, self_estimate_params)
       IN  /\ status' = IF r.raised = "none" THEN "returned" ELSE r.raised
           /\ estimate_call' = r.call
    /\ UNCHANGED <<dagVars, queryVars, sepVars, retVars, independenceVars, surrogateVars,
                   estimate_params, self_estimate_type, self_estimate_params>>

InitCausalTestCase ==
    /\ InitNoDAG
    /\ InitQuery
    /\ InitSepIdle
    /\ InitRet
    /\ InitOther

NextCausalTestCase ==
    \/ \E estimate_type \in EstimateTypes, params \in EstimateParams :
           CausalTestCase__init__(estimate_type, params)
    \/ \E df \in {"None", "given"}, methods \in SUBSET EstimatorMethods :
           execute_test(df, methods)

SpecCausalTestCase == InitCausalTestCase /\ [][NextCausalTestCase]_vars

(***************************************************************************)
(* Vertex separators, defined by paths.                                    *)
(***************************************************************************)
RECURSIVE ReachAvoiding(_, _, _)
ReachAvoiding(G, S, R) ==
    LET R2 == R \cup {m \in G.nodes \ S : \E n \in R : {n, m} \in G.edges}
    IN  IF R2 = R THEN R ELSE ReachAvoiding(G, S, R2)

\* removing S leaves no path from t to o
Separates(G, t, o, S) ==
    /\ t \notin S
    /\ o \notin S
    /\ o \notin ReachAvoiding(G, S, {t})

\* S separates t from o and no proper subset of S does
IsMinimalSeparator(G, t, o, S) ==
    /\ Separates(G, t, o, S)
    /\ \A S2 \in SUBSET S : S2 # S => ~Separates(G, t, o, S2)

MinimalSeparators(G, t, o) ==
    {S \in SUBSET (G.nodes \ {t, o}) : IsMinimalSeparator(G, t, o, S)}

Yielded == {yields[i] : i \in 1..Len(yields)}

\* the precondition of the enumeration: the anchors are not adjacent
AnchorsNonAdjacent == {treatment_node, outcome_node} \notin graph.edges

(***************************************************************************)
(* Claims about list_all_min_sep, under SpecSep.                           *)
(***************************************************************************)
\* C3: soundness. With non-adjacent anchors, every set yielded is a
\* minimal separator of treatment_node and outcome_node: removing it leaves
\* no path between them, and removing any proper subset of it leaves one.
C3_YieldsAreMinimalSeparators ==
    (op = "list_all_min_sep" /\ AnchorsNonAdjacent)
        => \A i \in 1..Len(yields) :
              IsMinimalSeparator(graph, treatment_node, outcome_node, yields[i])

C3_Witness ==
    /\ op = "list_all_min_sep"
    /\ AnchorsNonAdjacent
    /\ status = "returned"
    /\ Len(yields) >= 3
    /\ \E i \in 1..Len(yields) : Cardinality(yields[i]) >= 2

\* C4: completeness. With non-adjacent anchors, once the enumeration has
\* ended, whatever nodes were sampled, every minimal separator of
\* treatment_node and outcome_node is among the sets yielded.
C4_EveryMinimalSeparatorYielded ==
    (op = "list_all_min_sep" /\ AnchorsNonAdjacent /\ status # "running")
        => /\ status = "returned"
           /\ MinimalSeparators(graph, treatment_node, outcome_node) \subseteq Yielded

C4_Witness ==
    /\ op = "list_all_min_sep"
    /\ AnchorsNonAdjacent
    /\ status = "returned"
    /\ Cardinality(MinimalSeparators(graph, treatment_node, outcome_node)) >= 4
    /\ MinimalSeparators(graph, treatment_node, outcome_node) \subseteq Yielded

\* C5: no duplicates. Over the whole recursion of one call, whatever nodes
\* were sampled, no two yields are the same node set.
C5_NoDuplicateYields ==
    op = "list_all_min_sep"
        => \A i, j \in 1..Len(yields) : i # j => yields[i] # yields[j]

C5_Witness ==
    /\ op = "list_all_min_sep"
    /\ status = "returned"
    /\ Len(yields) >= 4
    /\ Cardinality(Yielded) = Len(yields)

(***************************************************************************)
(* The constructive back-door criterion, defined by paths (Zander et al.   *)
(* 2019, Definitions 3 and 4).                                             *)
(***************************************************************************)
\* the nodes outside X on a proper causal path from X to Y: a directed path
\* from a node of X to a node of Y whose only node in X is its first
ProperCausalNodes(E, X, Y) ==
    LET never_entering_X == {e \in E : e[2] \notin X}
        never_leaving_X == {e \in E : e[1] \notin X}
    IN  (ReachFrom(never_entering_X, X) \ X) \cap ReachInto(never_leaving_X, Y)

\* the nodes on a proper causal path and everything reachable from them
ForbiddenNodes(E, X, Y) == ReachFrom(E, ProperCausalNodes(E, X, Y))

\* An active trail reaches a node either against an edge ("up", from a
\* child) or along one ("down", from a parent). A trail goes on through a
\* node outside Z unless it would turn from "down" to "up" there; it turns
\* from "down" to "up" only at a node that is in Z or has a descendant in Z.
TrailSteps(E, Z, v) ==
    LET n == v[1]
        opened == ReachInto(E, Z)
    IN  (IF n \notin Z
         THEN {<<c, "down">> : c \in successors(E, {n})}
              \cup (IF v[2] = "up" THEN {<<q, "up">> : q \in predecessors(E, {n})} ELSE {})
         ELSE {})
        \cup (IF v[2] = "down" /\ n \in opened
              THEN {<<q, "up">> : q \in predecessors(E, {n})}
              ELSE {})

RECURSIVE ActiveTrails(_, _, _)
ActiveTrails(E, Z, R) ==
    LET R2 == R \cup UNION {TrailSteps(E, Z, v) : v \in R}
    IN  IF R2 = R THEN R ELSE ActiveTrails(E, Z, R2)

\* Z d-separates X from Y: no trail that is active given Z joins them
DSeparates(E, X, Y, Z) ==
    LET reached == {v[1] : v \in ActiveTrails(E, Z, {<<x, "up">> : x \in X})}
    IN  reached \cap Y = {}

\* condition (1) and condition (2) of the criterion
NoForbiddenCovariate(E, X, Y, Z) == Z \cap ForbiddenNodes(E, X, Y) = {}

SatisfiesCriterion(E, X, Y, Z) ==
    LET first_edges == {e \in E : e[1] \in X /\ e[2] \in ProperCausalNodes(E, X, Y)}
    IN  /\ NoForbiddenCovariate(E, X, Y, Z)
        /\ DSeparates(E \ first_edges, X, Y, Z)

\* the sets that satisfy the criterion and have no proper subset that does
MinimalAdjustmentSets(N, E, X, Y) ==
    {Z \in SUBSET (N \ (X \cup Y)) :
        /\ SatisfiesCriterion(E, X, Y, Z)
        /\ \A Z2 \in SUBSET Z : Z2 # Z => ~SatisfiesCriterion(E, X, Y, Z2)}

(***************************************************************************)
(* Claims about the adjustment sets, under Spec.                           *)
(***************************************************************************)
\* C6: soundness. Every set returned by enumerate_minimal_adjustment_sets
\* satisfies constructive_backdoor_criterion on the proper back-door graph,
\* and adjustment_set_is_minimal returns True for it.
C6_ReturnedSetsValidAndMinimal ==
    (op = "enumerate_minimal_adjustment_sets" /\ status = "returned")
        => \A i \in 1..Len(yields) :
              /\ constructive_backdoor_criterion(
                     nodes, edges,
                     get_proper_backdoor_graph(nodes, edges, treatments, outcomes),
                     treatments, outcomes, yields[i]) = Returns(TRUE)
              /\ adjustment_set_is_minimal(nodes, edges, treatments, outcomes, yields[i])
                     = Returns(TRUE)

\* C7: completeness. The list returned by enumerate_minimal_adjustment_sets
\* is, as an unordered collection, exactly the collection of the sets that
\* satisfy the constructive back-door criterion and have no proper subset
\* satisfying it.
C7_ReturnsExactlyMinimalAdjustmentSets ==
    (op = "enumerate_minimal_adjustment_sets" /\ status # "running")
        => /\ status = "returned"
           /\ Yielded = MinimalAdjustmentSets(nodes, edges, treatments, outcomes)
           /\ Len(yields) = Cardinality(Yielded)

\* C8: every set returned by enumerate_minimal_adjustment_sets is disjoint
\* from the treatments and the outcomes and holds neither anchor node.
C8_ReturnedSetsAvoidQueryNodes ==
    op = "enumerate_minimal_adjustment_sets"
        => \A i \in 1..Len(yields) :
              yields[i] \cap (treatments \cup outcomes \cup {"TREATMENT", "OUTCOME"}) = {}

\* C9: constructive_backdoor_criterion always returns a boolean, True iff
\* (1) no covariate is a node on a proper causal path or a descendant of
\* one and (2) the covariates d-separate the treatments from the outcomes in
\* the proper back-door graph given; (1) holds when no such path exists.
C9_CriterionReturnsExactBoolean ==
    op = "constructive_backdoor_criterion"
        => /\ status = "returned"
           /\ ret_bool =
                (/\ NoForbiddenCovariate(edges, treatments, outcomes, covariates)
                 /\ DSeparates(
                        get_proper_backdoor_graph(nodes, edges, treatments, outcomes).edges,
                        treatments, outcomes, covariates))

\* C10: adjustment_set_is_minimal, called with a set that does not satisfy
\* the constructive back-door criterion, raises ValueError.
C10_InvalidSetRaisesValueError ==
    (/\ op = "adjustment_set_is_minimal"
     /\ ~SatisfiesCriterion(edges, treatments, outcomes, covariates))
        => status = "ValueError"

\* C11: adjustment_set_is_minimal, called with a set Z that satisfies the
\* constructive back-door criterion, returns False iff Z \ {z} satisfies the
\* criterion for some z in Z, and True otherwise.
C11_MinimalIffNoElementRedundant ==
    (/\ op = "adjustment_set_is_minimal"
     /\ SatisfiesCriterion(edges, treatments, outcomes, covariates))
        => /\ status = "returned"
           /\ ret_bool = ~\E z \in covariates :
                             SatisfiesCriterion(edges, treatments, outcomes, covariates \ {z})


\* C28: adjustment_set_is_minimal, called with a set Z that satisfies the
\* constructive back-door criterion, returns True iff no proper subset of Z,
\* of any size, satisfies the criterion.
C28_MinimalIffNoProperSubsetValid ==
    (/\ op = "adjustment_set_is_minimal"
     /\ SatisfiesCriterion(edges, treatments, outcomes, covariates))
        => /\ status = "returned"
           /\ ret_bool = ~\E smaller \in SUBSET covariates :
                             /\ smaller # covariates
                             /\ SatisfiesCriterion(edges, treatments, outcomes, smaller)

(***************************************************************************)
(* Directed paths, written out as sequences of nodes.                      *)
(***************************************************************************)
\* the directed paths of the graph with one edge or more (in a DAG no path
\* visits a node twice, so none has more nodes than the graph)
DirectedPaths(N, E) ==
    {p \in UNION {[1..k -> N] : k \in 2..Cardinality(N)} :
        \A i \in 1..(Len(p) - 1) : <<p[i], p[i + 1]>> \in E}

\* the directed paths from a treatment to an outcome
CausalPaths(N, E, X, Y) ==
    {p \in DirectedPaths(N, E) : p[1] \in X /\ p[Len(p)] \in Y}

\* a causal path is proper when its first node is its only treatment
ProperCausalPaths(N, E, X, Y) ==
    {p \in CausalPaths(N, E, X, Y) : \A i \in 2..Len(p) : p[i] \notin X}

NodesOf(paths) == UNION {{p[i] : i \in 1..Len(p)} : p \in paths}
FirstEdgesOf(paths) == {<<p[1], p[2]>> : p \in paths}

(***************************************************************************)
(* Claims about the graph transforms, under SpecGraph.                     *)
(***************************************************************************)
\* C12: get_proper_backdoor_graph returns a graph with the nodes of G whose
\* edges are those of G without the edges (u, v) with u a treatment and v in
\* proper_causal_pathway(treatments, outcomes); the edges removed are
\* exactly the first edges of the proper causal paths from the treatments
\* to the outcomes.
C12_ProperBackdoorGraphDropsFirstEdges ==
    (op = "get_proper_backdoor_graph" /\ status = "returned")
        => LET removed == edges \ ret_graph.edges
           IN  /\ ret_graph.nodes = nodes
               /\ ret_graph.edges \subseteq edges
               /\ removed = {e \in edges :
                                /\ e[1] \in treatments
                                /\ e[2] \in proper_causal_pathway(edges, treatments, outcomes)}
               /\ removed = FirstEdgesOf(ProperCausalPaths(nodes, edges, treatments, outcomes))

C12_Witness ==
    /\ op = "get_proper_backdoor_graph"
    /\ status = "returned"
    /\ Cardinality(treatments) = 2
    /\ edges \ ret_graph.edges # {}
    /\ \E e \in ret_graph.edges : e[1] \in treatments /\ e[2] \notin treatments

\* C13 as stated: proper_causal_pathway returns exactly the nodes outside
\* the treatments that lie on a directed path from a treatment to an
\* outcome, a path through another treatment included.
C13_ReturnsNodesOnAnyCausalPath ==
    (op = "proper_causal_pathway" /\ status = "returned")
        => ret_set = NodesOf(CausalPaths(nodes, edges, treatments, outcomes)) \ treatments

\* C13 amended: proper_causal_pathway returns exactly the nodes outside the
\* treatments that lie on a proper causal path: a directed path from a
\* treatment to an outcome whose first node is its only treatment.
C13_ReturnsNodesOnProperCausalPaths ==
    (op = "proper_causal_pathway" /\ status = "returned")
        => ret_set = NodesOf(ProperCausalPaths(nodes, edges, treatments, outcomes)) \ treatments

\* a directed path from one treatment to an outcome passes through another
\* treatment, and a node before that treatment is left out of the result
C13_Witness ==
    /\ op = "proper_causal_pathway"
    /\ status = "returned"
    /\ ret_set # {}
    /\ ret_set # NodesOf(CausalPaths(nodes, edges, treatments, outcomes)) \ treatments

\* C14: get_proper_backdoor_graph, get_ancestor_graph, get_indirect_graph
\* and get_backdoor_graph leave the node set and the edge set of the graph
\* they are called on as they were, and so does a later removal of nodes
\* from the graph they returned: no step changes the source graph.
C14_TransformsNeverChangeSource ==
    [][nodes' = nodes /\ edges' = edges]_vars

\* a transform returned a graph that differs from its source, and the
\* caller then removed a node from the graph returned
C14_Witness ==
    /\ op = "remove_node"
    /\ ret_ref = "new"
    /\ treatments # {}
    /\ ret_graph.edges # {}
    /\ ret_graph.nodes # nodes
    /\ \E e \in edges : e \notin ret_graph.edges /\ e[1] \in ret_graph.nodes
                                                 /\ e[2] \in ret_graph.nodes

\* the exceptions that report a name that is no node of the graph:
\* IndexError "not a node in Causal DAG" of get_proper_backdoor_graph and
\* networkx's NetworkXError "The node is not in the digraph"
UnknownNodeErrors == {"IndexError", "NetworkXError"}

\* C15: proper_causal_pathway and get_proper_backdoor_graph, called with a
\* treatment or an outcome that is no node of the graph, fail with the
\* unknown-node error and leave the graph as it was.
C15_UnknownNodeFailsGraphUnchanged ==
    [][(/\ op = "init"
        /\ op' \in {"proper_causal_pathway", "get_proper_backdoor_graph"}
        /\ ~((treatments' \cup outcomes') \subseteq nodes))
       => (/\ status' \in UnknownNodeErrors
           /\ nodes' = nodes
           /\ edges' = edges)]_vars

C15_Witness ==
    /\ op = "get_proper_backdoor_graph"
    /\ status = "IndexError"
    /\ edges # {}
    /\ treatments \subseteq nodes
    /\ ~(outcomes \subseteq nodes)

\* the nodes of W and the nodes a directed path leads from to a node of W
InclusiveAncestors(N, E, W) ==
    W \cup {p[1] : p \in {q \in DirectedPaths(N, E) : q[Len(q)] \in W}}

\* C16: get_ancestor_graph returns the subgraph of G induced by the union
\* of the inclusive ancestors of all treatments and outcomes: its nodes are
\* exactly that union and its edges exactly the edges of G between them.
C16_AncestorGraphIsInducedSubgraph ==
    (op = "get_ancestor_graph" /\ status = "returned")
        => LET kept == InclusiveAncestors(nodes, edges, treatments \cup outcomes)
           IN  /\ ret_graph.nodes = kept
               /\ ret_graph.edges = {e \in edges : e[1] \in kept /\ e[2] \in kept}

C16_Witness ==
    /\ op = "get_ancestor_graph"
    /\ status = "returned"
    /\ ret_graph.nodes # nodes
    /\ ret_graph.nodes # treatments \cup outcomes
    /\ ret_graph.edges # {}
    /\ ret_graph.edges # edges

(***************************************************************************)
(* Claims about direct_effect_adjustment_sets, under SpecDirect.           *)
(***************************************************************************)
\* the pipeline of enumerate_minimal_adjustment_sets applied to a derived
\* graph: ancestor graph, moral graph, anchors, the neighbours of the
\* treatments connected pairwise and so the neighbours of the outcomes
EnumeratePipelineGraph(derived, X, Y) ==
    LET ancestor_graph == get_ancestor_graph(derived.nodes, derived.edges, X, Y)
        moralised == moral_graph(ancestor_graph.nodes, ancestor_graph.edges)
        anchored == add_edges_from(
                        moralised,
                        {{"TREATMENT", x} : x \in X} \cup {{"OUTCOME", y} : y \in Y})
        treatment_neighbours == neighbours_of_set(anchored, X) \ X
        outcome_neighbours == neighbours_of_set(anchored, Y) \ Y
    IN  add_edges_from(anchored, combinations2(treatment_neighbours)
                                     \cup combinations2(outcome_neighbours))

\* what that pipeline yields, the enumeration being started from
\* {TREATMENT} and neighbors(OUTCOME) + {OUTCOME}
EnumeratePipelineResult(derived, X, Y) ==
    LET G == EnumeratePipelineGraph(derived, X, Y)
    IN  list_all_min_sep_fixed_sample(
            G, "TREATMENT", "OUTCOME",
            {"TREATMENT"}, neighbors(G, "OUTCOME") \cup {"OUTCOME"})

\* C17: direct_effect_adjustment_sets ends as the pipeline of
\* enumerate_minimal_adjustment_sets does when get_indirect_graph stands in
\* for get_proper_backdoor_graph, and yields the same collection of sets.
C17_DirectEffectSameAsEnumeratePipeline ==
    (op = "direct_effect_adjustment_sets" /\ status # "running")
        => LET expected == EnumeratePipelineResult(
                               get_indirect_graph(nodes, edges, treatments, outcomes),
                               treatments, outcomes)
           IN  /\ status = expected.status
               /\ Yielded = expected.yields

(***************************************************************************)
(* Further claims about list_all_min_sep and close_separator.              *)
(***************************************************************************)
\* C18: the sets yielded by list_all_min_sep, as an unordered collection,
\* do not depend on the nodes sampled: whatever node each step samples, the
\* finished call has yielded the collection that the run with a fixed
\* sample yields on the same graph.
C18_YieldsIndependentOfSample ==
    (op = "list_all_min_sep" /\ status # "running")
        => Yielded = list_all_min_sep_fixed_sample(
                         graph, treatment_node, outcome_node, {treatment_node},
                         neighbors(graph, outcome_node) \cup {outcome_node}).yields

\* a finished call that sampled among several candidates at least twice
\* (three sets or more were yielded) in an order other than the fixed one
C18_Witness ==
    /\ op = "list_all_min_sep"
    /\ status = "returned"
    /\ Len(yields) >= 3
    /\ \E i, j \in 1..Len(yields) :
          /\ i < j
          /\ Cardinality(yields[i]) > Cardinality(yields[j])
    /\ Cardinality(Yielded) = Len(yields)

\* the treatment node sets close_separator may be given: sets of nodes of
\* the graph that contain the treatment node
TreatmentNodeSets == {Xs \in SUBSET graph.nodes : treatment_node \in Xs}

\* the outcome node is a neighbour of some node of Xs
OutcomeNextTo(Xs) == \E x \in Xs : {x, outcome_node} \in graph.edges

\* C19: close_separator(U, t, o, Xs), o being no neighbour of a node of
\* Xs, returns a set S that separates t from o in U (removing S leaves no
\* path between them), each node of S being adjacent to a node of Xs and
\* none being in Xs; on the graph of the test suite with Xs = {a} it returns
\* {2, 3}.
C19_CloseSeparatorSeparatesNextToXs ==
    /\ op = "list_all_min_sep"
          => \A Xs \in TreatmentNodeSets :
                ~OutcomeNextTo(Xs)
                    => LET r == close_separator(graph, treatment_node, outcome_node, Xs)
                       IN  /\ ~r.raised
                           /\ Separates(graph, treatment_node, outcome_node, r.set)
                           /\ \A n \in r.set : \E x \in Xs : {n, x} \in graph.edges
                           /\ r.set \cap Xs = {}
    /\ LET r == close_separator(FixtureGraph, "a", "b", {"a"})
       IN  ~r.raised /\ r.set = {"A", "B"}

\* list_all_min_sep is about to call close_separator with a treatment node
\* set of several nodes, and the separator is not just all their neighbours
C19_Witness ==
    /\ op = "list_all_min_sep"
    /\ status = "running"
    /\ stack # <<>>
    /\ LET Xs == Head(stack).Xs
           r == close_separator(graph, treatment_node, outcome_node, Xs)
       IN  /\ Cardinality(Xs) >= 2
           /\ ~OutcomeNextTo(Xs)
           /\ Cardinality(r.set) >= 2
           /\ r.set # neighbours_of_set(graph, Xs) \ Xs

\* C20: close_separator raises ValueError exactly when the outcome node is
\* a neighbour of some node of Xs (no component of the graph without the
\* neighbours of Xs contains it); the graph passed in is the same after the
\* call, raised or not; and enumerate_minimal_adjustment_sets never ends
\* with that ValueError.
C20_ValueErrorIffOutcomeNextToXs ==
    /\ [](op \in {"list_all_min_sep", "enumerate_minimal_adjustment_sets"}
            => /\ \A Xs \in TreatmentNodeSets :
                     LET r == close_separator(graph, treatment_node, outcome_node, Xs)
                     IN  /\ r.raised <=> OutcomeNextTo(Xs)
                         /\ r.graph = graph
               /\ (op = "enumerate_minimal_adjustment_sets" => status # "ValueError"))
    /\ [][(status = "running" /\ stack # <<>>)
             => /\ graph' = graph
                /\ (status' = "ValueError" <=> OutcomeNextTo(Head(stack).Xs))]_vars

\* one enumeration ended with the ValueError of close_separator
C20_WitnessRaised ==
    /\ op = "list_all_min_sep"
    /\ status = "ValueError"
    /\ graph.edges # {}

(***************************************************************************)
(* Termination of list_all_min_sep, under SpecSep.                         *)
(***************************************************************************)
\* a call whose sets are as the enumeration requires them
FrameAsRequired(f) ==
    /\ treatment_node \in f.Xs
    /\ outcome_node \in f.Ys
    /\ f.Xs \cap f.Ys = {}
    /\ f.Xs \cup f.Ys \subseteq graph.nodes

\* the calls that a step of the call at the head of the stack has made
CallsMade == {stack'[i] : i \in 1..(Len(stack') - Len(stack) + 1)}

\* call f goes on from call c with one of the two sets strictly larger
Grows(c, f) ==
    \/ c.Xs \subseteq f.Xs /\ c.Xs # f.Xs /\ c.Ys \subseteq f.Ys
    \/ c.Ys \subseteq f.Ys /\ c.Ys # f.Ys /\ c.Xs \subseteq f.Xs

RecursiveCallsGrow ==
    (status = "running" /\ stack # <<>> /\ FrameAsRequired(Head(stack)))
        => \A f \in CallsMade : FrameAsRequired(f) /\ Grows(Head(stack), f)

\* the nodes a call can still add to one of its two sets
NodesLeft(f) == Cardinality(graph.nodes \ (f.Xs \cup f.Ys))

\* a bound on the number of calls still to be made by the pending calls:
\* a call with k nodes left makes two calls with fewer than k nodes left, or
\* none
RECURSIVE CallsLeft(_)
CallsLeft(stk) ==
    IF stk = <<>> THEN 0 ELSE 3 ^ NodesLeft(Head(stk)) + CallsLeft(Tail(stk))

\* C27: list_all_min_sep terminates whatever nodes are sampled. With
\* non-adjacent anchors every pending call has t in its treatment node set,
\* o in its outcome node set and the two sets disjoint within the graph;
\* every recursive call has one of the two sets strictly larger than its
\* caller and the other not smaller; no more calls are pending than the
\* graph has nodes; and every step of the enumeration lowers a bound on the
\* calls still to be made, so that no enumeration runs forever.
C27_RecursionGrowsAndTerminates ==
    /\ [](AnchorsNonAdjacent =>
              \A i \in 1..Len(stack) : FrameAsRequired(stack[i]))
    /\ [][RecursiveCallsGrow]_vars
    /\ [](Len(stack) <= Cardinality(graph.nodes))
    /\ [][status = "running" => CallsLeft(stack') < CallsLeft(stack)]_vars

\* a call nested four deep, made with a treatment node set of four nodes
\* and an outcome node set grown by a sampled node
C27_Witness ==
    /\ op = "list_all_min_sep"
    /\ status = "running"
    /\ Len(stack) >= 3
    /\ Cardinality(Head(stack).Xs) >= 4
    /\ \E i \in 1..Len(stack) :
           stack[i].Ys # neighbors(graph, outcome_node) \cup {outcome_node}

(***************************************************************************)
(* Claims about list_conditional_independence_relationships, under         *)
(* SpecIndependence. d-separation is DSeparates, defined by active trails. *)
(***************************************************************************)
Listed == op = "list_conditional_independence_relationships" /\ ret_ref = "new"

\* the positions of the list that hold a relationship between x and y
RecordedAt(x, y) ==
    {i \in 1..Len(conditional_independence_relationships) :
        {conditional_independence_relationships[i].X,
         conditional_independence_relationships[i].Y} = {x, y}}

RecordedSets(x, y) ==
    {conditional_independence_relationships[i].Z : i \in RecordedAt(x, y)}

RecordedOnce(x, y) == Cardinality(RecordedAt(x, y)) = Cardinality(RecordedSets(x, y))

SeparatingSetsOfSize(x, y, k) ==
    {Z \in SUBSET (nodes \ {x, y}) :
        Cardinality(Z) = k /\ DSeparates(edges, {x}, {y}, Z)}

\* the non-empty sizes at which some set d-separates x and y
SeparatingSizes(x, y) ==
    {k \in 1..Cardinality(nodes) : SeparatingSetsOfSize(x, y, k) # {}}

Smallest(S) == CHOOSE k \in S : \A j \in S : k <= j
Largest(S) == CHOOSE k \in S : \A j \in S : k >= j

UnconditionallySeparated(x, y) == DSeparates(edges, {x}, {y}, {})

\* C21: with heuristic "minimal", for every pair of nodes not d-separated by
\* the empty set, the recorded conditioning sets are exactly the d-separating
\* subsets of the other nodes of the smallest non-empty size at which one
\* exists, each recorded once, and none when no set d-separates the pair.
C21_MinimalRecordsAllSmallestSeparators ==
    (Listed /\ search_heuristic = "minimal") =>
        \A x \in nodes, y \in nodes :
            (x # y /\ ~UnconditionallySeparated(x, y)) =>
                /\ RecordedOnce(x, y)
                /\ RecordedSets(x, y) =
                       IF SeparatingSizes(x, y) = {} THEN {}
                       ELSE SeparatingSetsOfSize(x, y, Smallest(SeparatingSizes(x, y)))

\* a pair that no single node but a set of two nodes d-separates
C21_Witness ==
    /\ Listed
    /\ search_heuristic = "minimal"
    /\ \E x \in nodes, y \in nodes :
           /\ x # y
           /\ ~UnconditionallySeparated(x, y)
           /\ SeparatingSetsOfSize(x, y, 1) = {}
           /\ \E Z \in RecordedSets(x, y) : Cardinality(Z) = 2

\* C22: with heuristic "maximal", for every pair of nodes not d-separated by
\* the empty set, the recorded conditioning sets are exactly the d-separating
\* subsets of the other nodes of the largest size, from the number of other
\* nodes down to 1, at which one exists.
C22_MaximalRecordsAllLargestSeparators ==
    (Listed /\ search_heuristic = "maximal") =>
        \A x \in nodes, y \in nodes :
            (x # y /\ ~UnconditionallySeparated(x, y)) =>
                /\ RecordedOnce(x, y)
                /\ RecordedSets(x, y) =
                       IF SeparatingSizes(x, y) = {} THEN {}
                       ELSE SeparatingSetsOfSize(x, y, Largest(SeparatingSizes(x, y)))

\* C23: under every heuristic, a pair of nodes d-separated by the empty set
\* has exactly one recorded relationship, the one with the empty
\* conditioning set: no non-empty set is searched for it.
C23_UnconditionalPairRecordedOnceOnly ==
    Listed =>
        \A x \in nodes, y \in nodes :
            (x # y /\ UnconditionallySeparated(x, y)) =>
                /\ Cardinality(RecordedAt(x, y)) = 1
                /\ RecordedSets(x, y) = {{}}

\* C24: under every heuristic, every recorded relationship (X, Y, Z) has
\* X # Y and Z a subset of the nodes other than X and Y.
C24_EndpointsOutsideConditioningSet ==
    Listed =>
        \A i \in 1..Len(conditional_independence_relationships) :
            LET r == conditional_independence_relationships[i]
            IN  /\ r.X # r.Y
                /\ r.Z \subseteq (nodes \ {r.X, r.Y})

(***************************************************************************)
(* Claims about CausalSurrogateAssistedTestCase, under                     *)
(* SpecSurrogateAssisted.                                                  *)
(***************************************************************************)
CallsOf(name) == {k \in 1..Len(simulator_calls) : simulator_calls[k] = name}
Runs == Cardinality(CallsOf("run_with_config"))
Faults == {k \in 1..Len(results) : results[k]}

\* C25: execute, for every max_executions >= 0 and every sequence of
\* simulation results, never runs the simulator more than max_executions
\* times, makes no run after a run that reported a fault, and ends by
\* returning: the result of the first run that reported a fault, with the
\* number of runs made as iteration count, or "No fault found" with
\* iteration count max_executions when none of max_executions runs did.
C25_ExecuteStopsAtFirstFaultOrBound ==
    op = "execute" =>
        /\ Runs <= max_executions
        /\ \A k \in Faults : k = Len(results)
        /\ pc = "done" =>
               /\ status = "returned"
               /\ IF Faults # {}
                  THEN /\ ret_result = "SimulationResult"
                       /\ ret_iterations = Runs
                  ELSE /\ ret_result = "No fault found"
                       /\ ret_iterations = max_executions
                       /\ Runs = max_executions

IncludedEdges == {e \in edges : adj(edge_metadata, e).included}

\* C26: generate_surrogates returns a list with exactly one surrogate model
\* for every edge (u, v) that carries "included", its treatment u, its
\* outcome v and its expected relationship the edge's "expected", and no
\* other model; the nodes, the edges and the edge attributes stay as they
\* were.
C26_OneSurrogatePerIncludedEdge ==
    /\ [](op = "generate_surrogates" =>
              /\ status = "returned"
              /\ Len(surrogate_models) = Cardinality(IncludedEdges)
              /\ \A e \in IncludedEdges :
                     \E k \in 1..Len(surrogate_models) :
                         /\ surrogate_models[k].treatment = e[1]
                         /\ surrogate_models[k].outcome = e[2]
                         /\ surrogate_models[k].expected_relationship
                                = adj(edge_metadata, e).expected)
    /\ [][op' = "generate_surrogates" => UNCHANGED <<nodes, edges, edge_metadata>>]_vars

SimulatorCycle == <<"startup", "run_with_config", "shutdown">>

\* C29: in execute the simulator is called in the order startup,
\* run_with_config, shutdown, again and again: once each in every iteration
\* that has ended; data_collector.data changes only in a step taken after
\* shutdown, before the next startup; and when execute has returned, with a
\* fault or without, shutdown has been called as often as startup.
C29_SimulatorCallsInOrderAndShutDown ==
    /\ [](op = "execute" =>
              /\ \A k \in 1..Len(simulator_calls) :
                     simulator_calls[k] = SimulatorCycle[((k - 1) % 3) + 1]
              /\ ((pc = "for" /\ loop_i # Unbound) \/ status = "returned")
                     => /\ Cardinality(CallsOf("startup")) = loop_i + 1
                        /\ Cardinality(CallsOf("run_with_config")) = loop_i + 1
                        /\ Cardinality(CallsOf("shutdown")) = loop_i + 1
              /\ status = "returned"
                     => Cardinality(CallsOf("shutdown")) = Cardinality(CallsOf("startup")))
    /\ [][(op = "execute" /\ data' # data)
              => /\ simulator_calls # <<>>
                 /\ simulator_calls[Len(simulator_calls)] = "shutdown"
                 /\ simulator_calls' = simulator_calls]_vars

\* execute has returned a fault found in its second iteration, the data
\* merged by a custom aggregator
C29_Witness ==
    /\ op = "execute"
    /\ status = "returned"
    /\ ret_result = "SimulationResult"
    /\ custom_data_aggregator
    /\ loop_i = 1
    /\ Len(simulator_calls) = 6
    /\ data = 4

(***************************************************************************)
(* Claims about CausalTestCase, under SpecCausalTestCase.                  *)
(***************************************************************************)
\* C30: a CausalTestCase constructed with an estimate_params that is not
\* None keeps it in self.estimate_params; execute_test then calls
\* estimate_<estimate_type> of the estimator with exactly those parameters,
\* or raises AttributeError without a call when the estimator has no such
\* method; and collect_data() is called once when the estimator's df is
\* None and not at all otherwise.
C30_EstimateParamsStoredAndPassed ==
    (op \in {"__init__", "execute_test"} /\ estimate_params # None) =>
        /\ self_estimate_params = estimate_params
        /\ op = "execute_test" =>
               /\ IF self_estimate_type \in estimator_methods
                  THEN /\ status = "returned"
                       /\ estimate_call = [method |-> self_estimate_type,
                                           kwargs |-> estimate_params.keywords]
                  ELSE /\ status = "AttributeError"
                       /\ estimate_call = NoCall
               /\ collect_data_calls = IF estimator_df = "collected" THEN 1 ELSE 0

(***************************************************************************)
(* Claims about add_edge, under SpecAddEdge.                               *)
(***************************************************************************)
\* C1: an add_edge(u, v) that would close a directed cycle raises
\* nx.HasACycle and leaves the node set and the edge set as they were.
C1_AddEdgeCycleLeavesGraphUnchanged ==
    [][(/\ op' = "add_edge"
        /\ calls' = calls + 1
        /\ HasSimpleCycle(edges \cup {<<u_of_edge', v_of_edge'>>}))
       => (/\ status' = "HasACycle"
           /\ nodes' = nodes
           /\ edges' = edges)]_vars

\* C2: after any sequence of add_edge calls on an acyclic CausalDAG,
\* rejected calls included, is_acyclic() is true, and a call is rejected
\* only when its edge closes a cycle among the edges inserted successfully.
C2_AcyclicAfterAnyAddEdges ==
    /\ is_acyclic(edges)
    /\ (op = "add_edge" /\ status = "HasACycle")
          => HasSimpleCycle(accepted \cup {<<u_of_edge, v_of_edge>>})

====
